---- MODULE Spec2Model ----
(***************************************************************************)
(* Model of dataset/preprocessing/memetracker_convert.py: the MemeTracker  *)
(* trace converter.  For each workload label (D, then E) the script reads  *)
(* the input files line by line, writes the first INIT_KEYS accepted keys  *)
(* to a load file, then synthesizes one operation per accepted key and     *)
(* deals the operations round-robin to NUM_THREADS worker files.           *)
(*                                                                         *)
(* A string read from the input is the sequence of the code points of its  *)
(* characters.  A worker file is write-only for the script; it is          *)
(* represented by the number of lines written to it, the line written      *)
(* last being <<op, query_key>>.                                           *)
(***************************************************************************)
EXTENDS Integers, Sequences, FiniteSets, TLC

\* ------------------------------------------------------------------ bounds
\* The configuration (lines 18-21 of the script) is drawn from these ranges.
MaxThreads == 2
MaxInitKeys == 2
MaxPerThreadKeys == 3
MaxKeyLength == 2
\* Accepted records read in one workload run.
MaxRecords == 6
\* The long run of workload D (SpecD): accepted records read, the
\* PER_THREAD_KEYS it is configured with, and the largest INIT_KEYS.
DeepRecords == 14
DeepInitKeys == 1
DeepPerThreadKeys == 16

\* ------------------------------------------------------- program constants
\* len(file_list) (lines 10-16)
NumFiles == 5
\* len(key_buffer) == 10 (line 45)
BufferSize == 10

VARIABLES
    NUM_THREADS, INIT_KEYS, PER_THREAD_KEYS, KEY_LENGTH,  \* configuration
    WORKLOAD,        \* loop variable of line 23
    pc,              \* "files" | "reading" | "closed" | "done" | "crashed"
    fileIdx,         \* entries of file_list opened so far in this run
    current_state, counter, current_thread,
    loadFile,        \* lines written to current_file
    loadClosed,      \* current_file.close() has been called
    workerLen,       \* workerLen[i]: lines written to worker_files[i]
    workersClosed,   \* lines 93-94 have run
    key_buffer, inserted_keys,
    line, key, op, query_key,
    nAccepted,       \* history: accepted records in this run
    insertLog        \* history: keys of the "i" operations of this run, in order

config == <<NUM_THREADS, INIT_KEYS, PER_THREAD_KEYS, KEY_LENGTH>>
vars == <<NUM_THREADS, INIT_KEYS, PER_THREAD_KEYS, KEY_LENGTH, WORKLOAD, pc,
          fileIdx, current_state, counter, current_thread, loadFile,
          loadClosed, workerLen, workersClosed, key_buffer, inserted_keys,
          line, key, op, query_key, nAccepted, insertLog>>

\* ------------------------------------------------------------- pure helpers
\* A character is its Unicode code point (ord(c)); a string is the sequence
\* of its characters.
\*
\* The characters str.split() separates on (str.isspace), all 29 of them:
\* U+0009-U+000D, U+001C-U+001F, U+0020, U+0085, U+00A0, U+1680,
\* U+2000-U+200A, U+2028, U+2029, U+202F, U+205F, U+3000.
Whitespace ==
    (9..13) \cup (28..32) \cup {133, 160, 5760} \cup (8192..8202)
        \cup {8232, 8233, 8239, 8287, 12288}

\* Python's c * n: the empty string when n <= 0.
Repeat(c, n) == IF n <= 0 THEN <<>> ELSE [i \in 1..n |-> c]

RECURSIVE SplitRec(_, _, _, _)
SplitRec(s, i, cur, acc) ==
    IF i > Len(s)
    THEN IF cur = <<>> THEN acc ELSE Append(acc, cur)
    ELSE IF s[i] \in Whitespace
         THEN SplitRec(s, i + 1, <<>>, IF cur = <<>> THEN acc ELSE Append(acc, cur))
         ELSE SplitRec(s, i + 1, Append(cur, s[i]), acc)

\* str.split() with no argument: the maximal runs of non-whitespace.
Split(s) == SplitRec(s, 1, <<>>, <<>>)

\* Lines 66-69: the record filter, on the split line.
\* 76 is "L" and 80 is "P".
Accepts(fields) == Len(fields) >= 2 /\ fields[1] \in {<<76>>, <<80>>}

\* Variant: one filler character too many.
Normalize_OnePadMore(tok, W) == tok \o Repeat(47, W - Len(tok) + 1)

\* Line 71: key + "/" * (KEY_LENGTH - len(key)); 47 is "/".
Normalize(tok, W) == tok \o Repeat(47, W - Len(tok))

\* Variants: the phase switches one accepted record early, or one late.
IsTransition_Early(cnt, init) == cnt = init
IsTransition_Late(cnt, init) == cnt = init + 2

\* Line 75: the record that switches the phase.
IsTransition(cnt, init) == cnt = init + 1

\* Line 87: the operation-count bound.
BoundReached(cnt, perThread) == cnt >= perThread - 1

\* Variant: pop() in place of pop(0), dropping the newest entry.
PushRecent_DropNewest(buf, k) ==
    Append(IF Len(buf) = BufferSize THEN SubSeq(buf, 1, Len(buf) - 1) ELSE buf, k)

\* Lines 45-47: push onto the recent-key buffer.
PushRecent(buf, k) ==
    Append(IF Len(buf) = BufferSize THEN Tail(buf) ELSE buf, k)

\* Variant: a read always returns the just-arrived key.
GenerateOpD_ReadCurrent(current_key, buf, lessThan09, idx) ==
    IF lessThan09
    THEN [op |-> "r", query_key |-> current_key, key_buffer |-> buf]
    ELSE [op |-> "i", query_key |-> current_key,
          key_buffer |-> PushRecent(buf, current_key)]

\* Lines 36-48: generate_op for workload D.  lessThan09 is the outcome of
\* random.random() < 0.9 and idx the value of random.randrange.
GenerateOpD(current_key, buf, lessThan09, idx) ==
    IF lessThan09
    THEN IF Len(buf) = 0
         THEN [op |-> "r", query_key |-> current_key, key_buffer |-> buf]
         ELSE [op |-> "r", query_key |-> buf[idx + 1], key_buffer |-> buf]
    ELSE [op |-> "i", query_key |-> current_key,
          key_buffer |-> PushRecent(buf, current_key)]

\* Variant: a scan returns the just-arrived key.
GenerateOpE_ScanCurrent(current_key, inserted, lessThan09, idx) ==
    IF lessThan09
    THEN [op |-> "s", query_key |-> current_key, inserted_keys |-> inserted]
    ELSE [op |-> "i", query_key |-> current_key,
          inserted_keys |-> Append(inserted, current_key)]

\* Lines 49-56: generate_op for workload E (inserted non-empty on a scan).
GenerateOpE(current_key, inserted, lessThan09, idx) ==
    IF lessThan09
    THEN [op |-> "s", query_key |-> inserted[idx + 1], inserted_keys |-> inserted]
    ELSE [op |-> "i", query_key |-> current_key,
          inserted_keys |-> Append(inserted, current_key)]

\* random.randrange(0, n): the values it can return (it raises when n = 0).
RandRange(n) == 0..(n - 1)

\* Variant: the cursor wraps one position early.
WrapThread_Early(ct, nThreads) == IF ct >= nThreads - 1 THEN 0 ELSE ct

\* Variant: the round counter is not advanced when the cursor wraps.
WrapCounter_NoCount(ct, nThreads, cnt) == cnt

\* Lines 84-86: the cursor after the wrap test, and the round counter.
WrapThread(ct, nThreads) == IF ct = nThreads THEN 0 ELSE ct
WrapCounter(ct, nThreads, cnt) == IF ct = nThreads THEN cnt + 1 ELSE cnt

RECURSIVE SumLines(_, _)
SumLines(f, n) == IF n = 0 THEN 0 ELSE f[n - 1] + SumLines(f, n - 1)

\* Operation lines written to all worker files of this run.
TotalOps == SumLines(workerLen, NUM_THREADS)

\* ------------------------------------------------------------------ inputs
\* "ccc": one character longer than the largest KEY_LENGTH
LongTok == Repeat(99, MaxKeyLength + 1)
\* "L\n"
OneField == <<76, 10>>
\* "X a\n"
BadTag == <<88, 32, 97, 10>>
\* "L a\n"
LineA == <<76, 32, 97, 10>>
\* "P\t\u2003ccc\x0cx\n": tab, EM SPACE and form feed as separators
LineLong == <<80, 9, 8195>> \o LongTok \o <<12, 120, 10>>
RawLines == {OneField, BadTag, LineA, LineLong}
\* "L b\n": the record the long run of workload D pre-loads
LineB == <<76, 32, 98, 10>>

\* ------------------------------------------------------------------- state
\* Lines 24-32: the state at the start of one workload's run.
RunStart(w) ==
    /\ WORKLOAD = w
    /\ pc = "files"
    /\ fileIdx = 0
    /\ current_state = "load"
    /\ counter = 0
    /\ current_thread = 0
    /\ loadFile = <<>>
    /\ loadClosed = FALSE
    /\ workerLen = [i \in 0..(NUM_THREADS - 1) |-> 0]
    /\ workersClosed = FALSE
    /\ key_buffer = <<>>
    /\ inserted_keys = <<>>
    /\ nAccepted = 0
    /\ insertLog = <<>>

Init ==
    /\ NUM_THREADS \in 1..MaxThreads
    /\ INIT_KEYS \in 0..MaxInitKeys
    /\ PER_THREAD_KEYS \in 1..MaxPerThreadKeys
    /\ KEY_LENGTH = MaxKeyLength
    /\ RunStart("D")
    /\ line = <<>>
    /\ key = <<>>
    /\ op = ""
    /\ query_key = <<>>

\* Line 58-59: the for loop opens the next file of file_list.
OpenFile ==
    /\ pc = "files"
    /\ fileIdx < NumFiles
    /\ fileIdx' = fileIdx + 1
    /\ pc' = "reading"
    /\ UNCHANGED <<config, WORKLOAD, current_state, counter, current_thread,
                   loadFile, loadClosed, workerLen, workersClosed, key_buffer,
                   inserted_keys, line, key, op, query_key, nAccepted,
                   insertLog>>

\* Lines 61-63: readline returns "" at end of file; the while loop ends.
ReadEOF ==
    /\ pc = "reading"
    /\ line' = <<>>
    /\ pc' = "files"
    /\ UNCHANGED <<config, WORKLOAD, fileIdx, current_state, counter,
                   current_thread, loadFile, loadClosed, workerLen,
                   workersClosed, key_buffer, inserted_keys, key, op,
                   query_key, nAccepted, insertLog>>

\* Lines 65-69: a line the record filter rejects.
SkipLine(raw) ==
    /\ pc = "reading"
    /\ raw # <<>>
    /\ ~Accepts(Split(raw))
    /\ line' = Split(raw)
    /\ UNCHANGED <<config, WORKLOAD, pc, fileIdx, current_state, counter,
                   current_thread, loadFile, loadClosed, workerLen,
                   workersClosed, key_buffer, inserted_keys, key, op,
                   query_key, nAccepted, insertLog>>

\* Lines 65-74, 79-81: an accepted record in the load phase, written to the
\* load file and registered in inserted_keys.
LoadWrite(raw) ==
    /\ pc = "reading"
    /\ raw # <<>>
    /\ Accepts(Split(raw))
    /\ current_state = "load"
    /\ ~IsTransition(counter + 1, INIT_KEYS)
    /\ line' = Split(raw)
    /\ key' = Normalize(Split(raw)[2], KEY_LENGTH)
    /\ counter' = counter + 1
    /\ inserted_keys' = Append(inserted_keys, key')
    /\ loadFile' = Append(loadFile, key')
    /\ nAccepted' = nAccepted + 1
    /\ UNCHANGED <<config, WORKLOAD, pc, fileIdx, current_state,
                   current_thread, loadClosed, workerLen, workersClosed,
                   key_buffer, op, query_key, insertLog>>

\* Lines 65-78: the accepted record that makes counter reach INIT_KEYS + 1.
Transition(raw) ==
    /\ pc = "reading"
    /\ raw # <<>>
    /\ Accepts(Split(raw))
    /\ current_state = "load"
    /\ IsTransition(counter + 1, INIT_KEYS)
    /\ line' = Split(raw)
    /\ key' = Normalize(Split(raw)[2], KEY_LENGTH)
    /\ counter' = 0
    /\ current_state' = "thread"
    /\ loadClosed' = TRUE
    /\ nAccepted' = nAccepted + 1
    /\ UNCHANGED <<config, WORKLOAD, pc, fileIdx, current_thread, loadFile,
                   workerLen, workersClosed, key_buffer, inserted_keys, op,
                   query_key, insertLog>>

\* Lines 65-72, 83-91: an accepted record in the thread phase: wrap the cursor
\* if needed, synthesize one operation, write it, advance the cursor.
ThreadOp(raw) ==
    /\ pc = "reading"
    /\ raw # <<>>
    /\ Accepts(Split(raw))
    /\ current_state = "thread"
    /\ LET ct == WrapThread(current_thread, NUM_THREADS)
           cnt == WrapCounter(current_thread, NUM_THREADS, counter)
           k == Normalize(Split(raw)[2], KEY_LENGTH)
       IN  /\ ~(current_thread = NUM_THREADS /\ BoundReached(cnt, PER_THREAD_KEYS))
           /\ line' = Split(raw)
           /\ key' = k
           /\ counter' = cnt
           /\ \E lessThan09 \in BOOLEAN :
                IF WORKLOAD = "D"
                THEN \E idx \in (IF lessThan09 /\ Len(key_buffer) > 0
                                 THEN RandRange(Len(key_buffer)) ELSE {0}) :
                       LET g == GenerateOpD(k, key_buffer, lessThan09, idx)
                       IN  /\ op' = g.op
                           /\ query_key' = g.query_key
                           /\ key_buffer' = g.key_buffer
                           /\ inserted_keys' = inserted_keys
                ELSE \E idx \in (IF lessThan09
                                 THEN RandRange(Len(inserted_keys)) ELSE {0}) :
                       LET g == GenerateOpE(k, inserted_keys, lessThan09, idx)
                       IN  /\ op' = g.op
                           /\ query_key' = g.query_key
                           /\ inserted_keys' = g.inserted_keys
                           /\ key_buffer' = key_buffer
           /\ insertLog' = IF op' = "i" THEN Append(insertLog, query_key')
                                       ELSE insertLog
           /\ workerLen' = [workerLen EXCEPT ![ct] = @ + 1]
           /\ current_thread' = ct + 1
    /\ nAccepted' = nAccepted + 1
    /\ UNCHANGED <<config, WORKLOAD, pc, fileIdx, current_state, loadFile,
                   loadClosed, workersClosed>>

\* Lines 50-52: workload E draws a scan while inserted_keys is empty;
\* random.randrange(0, 0) raises ValueError and the script dies.
ScanCrash(raw) ==
    /\ pc = "reading"
    /\ raw # <<>>
    /\ Accepts(Split(raw))
    /\ current_state = "thread"
    /\ WORKLOAD = "E"
    /\ Len(inserted_keys) = 0
    /\ LET ct == WrapThread(current_thread, NUM_THREADS)
           cnt == WrapCounter(current_thread, NUM_THREADS, counter)
       IN  /\ ~(current_thread = NUM_THREADS /\ BoundReached(cnt, PER_THREAD_KEYS))
           /\ counter' = cnt
           /\ current_thread' = ct
    /\ line' = Split(raw)
    /\ key' = Normalize(Split(raw)[2], KEY_LENGTH)
    /\ pc' = "crashed"
    /\ nAccepted' = nAccepted + 1
    /\ UNCHANGED <<config, WORKLOAD, fileIdx, current_state, loadFile,
                   loadClosed, workerLen, workersClosed, key_buffer,
                   inserted_keys, op, query_key, insertLog>>

\* Lines 84-88: the cursor wraps and the round counter reaches the bound;
\* break leaves the while loop of the current file.
RoundBreak(raw) ==
    /\ pc = "reading"
    /\ raw # <<>>
    /\ Accepts(Split(raw))
    /\ current_state = "thread"
    /\ current_thread = NUM_THREADS
    /\ BoundReached(counter + 1, PER_THREAD_KEYS)
    /\ line' = Split(raw)
    /\ key' = Normalize(Split(raw)[2], KEY_LENGTH)
    /\ current_thread' = 0
    /\ counter' = counter + 1
    /\ pc' = "files"
    /\ nAccepted' = nAccepted + 1
    /\ UNCHANGED <<config, WORKLOAD, fileIdx, current_state, loadFile,
                   loadClosed, workerLen, workersClosed, key_buffer,
                   inserted_keys, op, query_key, insertLog>>

\* Lines 58, 93-94: file_list is exhausted; the worker files are closed.
CloseWorkers ==
    /\ pc = "files"
    /\ fileIdx = NumFiles
    /\ workersClosed' = TRUE
    /\ pc' = "closed"
    /\ UNCHANGED <<config, WORKLOAD, fileIdx, current_state, counter,
                   current_thread, loadFile, loadClosed, workerLen, key_buffer,
                   inserted_keys, line, key, op, query_key, nAccepted,
                   insertLog>>

\* Variant: lines 31-32 hoisted out of the workload loop, so that the key
\* collections of the previous run are kept.
NextWorkload_KeepKeys ==
    /\ pc = "closed"
    /\ WORKLOAD = "D"
    /\ WORKLOAD' = "E"
    /\ pc' = "files"
    /\ fileIdx' = 0
    /\ current_state' = "load"
    /\ counter' = 0
    /\ current_thread' = 0
    /\ loadFile' = <<>>
    /\ loadClosed' = FALSE
    /\ workerLen' = [i \in 0..(NUM_THREADS - 1) |-> 0]
    /\ workersClosed' = FALSE
    /\ nAccepted' = 0
    /\ insertLog' = <<>>
    /\ UNCHANGED <<config, key_buffer, inserted_keys, line, key, op, query_key>>

\* Lines 23-32: the next workload label.  line, key, op and query_key are
\* not assigned here: they keep the values of the previous run until lines
\* 61, 70 and 89 assign them again.
NextWorkload ==
    /\ pc = "closed"
    /\ WORKLOAD = "D"
    /\ WORKLOAD' = "E"
    /\ pc' = "files"
    /\ fileIdx' = 0
    /\ current_state' = "load"
    /\ counter' = 0
    /\ current_thread' = 0
    /\ loadFile' = <<>>
    /\ loadClosed' = FALSE
    /\ workerLen' = [i \in 0..(NUM_THREADS - 1) |-> 0]
    /\ workersClosed' = FALSE
    /\ key_buffer' = <<>>
    /\ inserted_keys' = <<>>
    /\ nAccepted' = 0
    /\ insertLog' = <<>>
    /\ UNCHANGED <<config, line, key, op, query_key>>

\* Line 23: no workload label is left; the script ends.
Finish ==
    /\ pc = "closed"
    /\ WORKLOAD = "E"
    /\ pc' = "done"
    /\ UNCHANGED <<config, WORKLOAD, fileIdx, current_state, counter,
                   current_thread, loadFile, loadClosed, workerLen,
                   workersClosed, key_buffer, inserted_keys, line, key, op,
                   query_key, nAccepted, insertLog>>

Next ==
    \/ OpenFile
    \/ ReadEOF
    \/ \E raw \in RawLines : SkipLine(raw)
    \/ \E raw \in RawLines : nAccepted < MaxRecords /\ LoadWrite(raw)
    \/ \E raw \in RawLines : nAccepted < MaxRecords /\ Transition(raw)
    \/ \E raw \in RawLines : nAccepted < MaxRecords /\ ThreadOp(raw)
    \/ \E raw \in RawLines : nAccepted < MaxRecords /\ ScanCrash(raw)
    \/ \E raw \in RawLines : nAccepted < MaxRecords /\ RoundBreak(raw)
    \/ CloseWorkers
    \/ NextWorkload
    \/ Finish

Spec == Init /\ [][Next]_vars

\* ---------------------------------------------------------------------
\* Workload D alone on one long file of accepted records, one worker
\* thread: long enough for the recent-key buffer to fill and evict.  The
\* records of the load phase carry a key ("b") of their own, so a key seen
\* only in the load phase can be told from the keys that arrive later.
InitD ==
    /\ NUM_THREADS = 1
    /\ INIT_KEYS \in 0..DeepInitKeys
    /\ PER_THREAD_KEYS = DeepPerThreadKeys
    /\ KEY_LENGTH = MaxKeyLength
    /\ RunStart("D")
    /\ line = <<>>
    /\ key = <<>>
    /\ op = ""
    /\ query_key = <<>>

NextD ==
    \/ OpenFile
    \/ \E raw \in {LineB} : nAccepted < DeepRecords /\ LoadWrite(raw)
    \/ \E raw \in {LineA, LineLong} : nAccepted < DeepRecords /\ Transition(raw)
    \/ \E raw \in {LineA, LineLong} : nAccepted < DeepRecords /\ ThreadOp(raw)

SpecD == InitD /\ [][NextD]_vars

\* ------------------------------------------------------- auxiliary notions
Min(a, b) == IF a < b THEN a ELSE b
Range(f) == {f[i] : i \in DOMAIN f}
LastN(seq, n) == SubSeq(seq, Len(seq) - n + 1, Len(seq))
IsPrefix(p, q) == Len(p) <= Len(q) /\ SubSeq(q, 1, Len(p)) = p
SameRun == WORKLOAD' = WORKLOAD

\* Tokens of the accepted input lines, and every key the script has stored
\* or written: load file, inserted_keys, key_buffer, last worker line.
RawTokens == {Split(raw)[2] : raw \in {LineA, LineLong}}
WrittenKeys ==
    Range(loadFile) \cup Range(inserted_keys) \cup Range(key_buffer)
        \cup (IF op = "" THEN {} ELSE {query_key})

\* The round counter has reached PER_THREAD_KEYS - 1 at a cursor wrap.
BoundHit ==
    current_state = "thread" /\ counter >= 1 /\ counter >= PER_THREAD_KEYS - 1

TypeOK ==
    /\ pc \in {"files", "reading", "closed", "done", "crashed"}
    /\ WORKLOAD \in {"D", "E"}
    /\ current_state \in {"load", "thread"}
    /\ current_thread \in 0..NUM_THREADS
    /\ DOMAIN workerLen = 0..(NUM_THREADS - 1)
    /\ op \in {"", "r", "i", "s"}

\* ------------------------------------------------------------------ claims

\* C1: the load file holds exactly min(INIT_KEYS, accepted records) lines;
\* an accepted record is appended at its end, as its normalized key, exactly
\* when it is among the first INIT_KEYS accepted records of the run (so line
\* j is the key of the j-th accepted record), and no other step (a rejected
\* line in particular) changes the load file.
C1_LoadStep ==
    IF ~SameRun THEN loadFile' = <<>>
    ELSE IF nAccepted' = nAccepted + 1 /\ nAccepted' <= INIT_KEYS
         THEN /\ Accepts(line')
              /\ loadFile' = Append(loadFile, Normalize(line'[2], KEY_LENGTH))
         ELSE loadFile' = loadFile
C1_LoadFile ==
    /\ [](Len(loadFile) = Min(INIT_KEYS, nAccepted))
    /\ [][C1_LoadStep]_vars
C1_Witness ==
    /\ pc = "closed"
    /\ INIT_KEYS = 2
    /\ nAccepted >= 4
    /\ loadFile = <<LongTok, Normalize(<<97>>, KEY_LENGTH)>>

\* C2: within a run the phase leaves "load" exactly at the accepted record
\* number INIT_KEYS + 1, where the load file is closed and the counter reset
\* to 0; it never returns, and the load file is not written afterwards.
C2_PhaseStep ==
    SameRun =>
        /\ current_state = "thread" =>
              current_state' = "thread" /\ loadFile' = loadFile /\ loadClosed'
        /\ (current_state = "load" /\ current_state' = "thread") =>
              /\ nAccepted' = INIT_KEYS + 1
              /\ counter' = 0
              /\ ~loadClosed /\ loadClosed'
        /\ (current_state = "load" /\ nAccepted' = INIT_KEYS + 1
                /\ nAccepted = INIT_KEYS) => current_state' = "thread"
C2_PhaseOnce ==
    /\ [](current_state = "thread" <=> nAccepted >= INIT_KEYS + 1)
    /\ [][C2_PhaseStep]_vars
C2_Witness ==
    /\ current_state = "thread"
    /\ INIT_KEYS = 1
    /\ nAccepted >= INIT_KEYS + 3
    /\ loadClosed
    /\ Len(loadFile) = 1

\* C3: once the accepted record number INIT_KEYS + 1 has been processed,
\* exactly one operation has been written, and it is on worker file 0.
C3_FirstThreadKey ==
    nAccepted = INIT_KEYS + 1 => TotalOps = 1 /\ workerLen[0] = 1

\* C4: the k-th operation of a run (counted from 0) goes to worker file
\* k mod NUM_THREADS: a step of a run writes at most one operation line, to
\* the worker file whose index is the number of operations written so far
\* modulo NUM_THREADS, and the cursor stays within 0..NUM_THREADS.
C4_RoundRobinStep ==
    SameRun =>
        \/ workerLen' = workerLen
        \/ /\ TotalOps % NUM_THREADS \in DOMAIN workerLen
           /\ workerLen' = [workerLen EXCEPT ![TotalOps % NUM_THREADS] = @ + 1]
C4_RoundRobin ==
    /\ [](/\ DOMAIN workerLen = 0..(NUM_THREADS - 1)
          /\ current_thread \in 0..NUM_THREADS
          /\ \A i \in DOMAIN workerLen :
                workerLen[i] = (TotalOps + NUM_THREADS - 1 - i) \div NUM_THREADS)
    /\ [][C4_RoundRobinStep]_vars
C4_Witness ==
    /\ NUM_THREADS = 2
    /\ fileIdx >= 2
    /\ counter >= 1
    /\ workerLen[0] = 2
    /\ workerLen[1] = 1

\* C5: the operations written to all worker files never exceed
\* NUM_THREADS * PER_THREAD_KEYS.
C5_TotalOpsBound == TotalOps <= NUM_THREADS * PER_THREAD_KEYS

\* C6: once the round counter has reached PER_THREAD_KEYS - 1 at a cursor
\* wrap, the run reads no further input and writes no further operation.
C6_HaltStep ==
    (BoundHit /\ SameRun) =>
        /\ pc' # "reading"
        /\ nAccepted' = nAccepted
        /\ workerLen' = workerLen
C6_HaltsAtBound == [][C6_HaltStep]_vars

\* C7: in workload D the recent-key buffer has at most 10 entries and is, in
\* insertion order, the keys of the last min(10, n) insert operations of the
\* run (so an insert on a full buffer drops the oldest entry, and a read
\* leaves the buffer alone).
C7_RecentBuffer ==
    WORKLOAD = "D" =>
        /\ Len(key_buffer) <= 10
        /\ key_buffer = LastN(insertLog, Min(10, Len(insertLog)))
C7_Witness ==
    /\ WORKLOAD = "D"
    /\ Len(insertLog) = 11
    /\ insertLog[1] # insertLog[11]
    /\ insertLog[1] # insertLog[2]
    /\ op = "r"
    /\ Len(key_buffer) = 10

\* C8: in workload E a scanned key is an element of inserted_keys, which
\* holds the load-file lines followed by the keys of the insert operations
\* of the run, and inserted_keys only grows by appending.
C8_ScanStep == SameRun => IsPrefix(inserted_keys, inserted_keys')
C8_ScanKnownKey ==
    /\ [](WORKLOAD = "E" =>
            /\ op = "s" => query_key \in Range(inserted_keys)
            /\ inserted_keys = loadFile \o insertLog)
    /\ [][C8_ScanStep]_vars
C8_Witness ==
    /\ WORKLOAD = "E"
    /\ op = "s"
    /\ query_key \in Range(insertLog)
    /\ query_key \notin Range(loadFile)
    /\ query_key # key

\* C9: for an accepted record whose token is at most KEY_LENGTH long the key
\* is the token followed by "/" up to exactly KEY_LENGTH characters; so a
\* stored or written key has exactly KEY_LENGTH characters unless it comes
\* from a token longer than KEY_LENGTH.
C9_NormalizedKey ==
    /\ (Accepts(line) /\ Len(line[2]) <= KEY_LENGTH) =>
          /\ Len(key) = KEY_LENGTH
          /\ SubSeq(key, 1, Len(line[2])) = line[2]
          /\ \A i \in (Len(line[2]) + 1)..KEY_LENGTH : key[i] = 47
    /\ \A k \in WrittenKeys :
          Len(k) = KEY_LENGTH \/ (Len(k) > KEY_LENGTH /\ k \in RawTokens)
C9_Witness ==
    /\ Accepts(line)
    /\ Len(line[2]) < KEY_LENGTH
    /\ op = "i"
    /\ query_key = key
    /\ key \in Range(loadFile)

\* C10: an accepted record whose token is longer than KEY_LENGTH stops the
\* run with an error, and no key longer than KEY_LENGTH is stored or written.
C10_KeyTooLong ==
    /\ (Accepts(line) /\ Len(line[2]) > KEY_LENGTH) => pc = "crashed"
    /\ \A k \in WrittenKeys : Len(k) <= KEY_LENGTH

\* C11: when a run has ended (lines 93-94 have run), whichever way the
\* input loop was left, the load file and the worker files are closed.
C11_AllClosedAtEnd == pc = "closed" => loadClosed /\ workersClosed

\* The state of lines 24-32: nothing read, nothing written, load phase,
\* counters and cursor at 0, both key collections empty, all files open.
FreshRun ==
    /\ pc = "files"
    /\ fileIdx = 0
    /\ current_state = "load"
    /\ counter = 0
    /\ current_thread = 0
    /\ nAccepted = 0
    /\ key_buffer = <<>>
    /\ inserted_keys = <<>>
    /\ loadFile = <<>>
    /\ ~loadClosed
    /\ \A i \in DOMAIN workerLen : workerLen[i] = 0
    /\ ~workersClosed

\* C12: the run of a workload label starts from the same state whatever the
\* previous label's run did: the step from the run of D to the run of E
\* leaves the configuration alone and ends in the fresh state, which is the
\* state the run of D started from; so the run of E after D behaves, on the
\* same input and random draws, as a run of E alone.
C12_FreshStep == ~SameRun => (WORKLOAD = "D" /\ WORKLOAD' = "E" /\ FreshRun' /\ config' = config)
C12_IndependentRuns ==
    /\ []((pc = "files" /\ fileIdx = 0) => FreshRun)
    /\ [][C12_FreshStep]_vars
C12_Witness ==
    /\ WORKLOAD = "E"
    /\ INIT_KEYS = 0
    /\ nAccepted = 2
    /\ op = "i"
    /\ inserted_keys = <<key>>
    /\ workerLen[0] = 1
    /\ TotalOps = 1

\* C13: in workload E, whatever the configuration, a scan draw never finds
\* inserted_keys empty: generate_op never raises, and a scan that has been
\* emitted carries an element of inserted_keys.
C13_ScanNeverFails ==
    WORKLOAD = "E" =>
        /\ pc # "crashed"
        /\ op = "s" => query_key \in Range(inserted_keys)

\* C14: in workload D a step that writes an operation writes "r" or "i";
\* an "i" carries the just-arrived key; an "r" leaves the buffer alone and
\* carries an entry of the buffer (hence the key of one of the last 10
\* inserts of the run) when the buffer is not empty, and the just-arrived
\* key when it is empty; a key of the load file is read only if it has
\* arrived again in the thread phase, as an inserted key or as the
\* just-arrived key.
C14_OpStep ==
    (SameRun /\ WORKLOAD = "D" /\ workerLen' # workerLen) =>
        /\ Accepts(line')
        /\ op' \in {"r", "i"}
        /\ op' = "i" =>
              /\ query_key' = key'
              /\ insertLog' = Append(insertLog, key')
        /\ op' = "r" =>
              /\ key_buffer' = key_buffer
              /\ insertLog' = insertLog
              /\ IF key_buffer = <<>>
                 THEN query_key' = key'
                 ELSE /\ query_key' \in Range(key_buffer)
                      /\ query_key' \in
                            Range(LastN(insertLog, Min(10, Len(insertLog))))
              /\ query_key' \in Range(loadFile) =>
                    query_key' \in Range(insertLog) \/ query_key' = key'
        /\ Range(loadFile) \cap Range(key_buffer') \subseteq Range(insertLog')
C14_ReadRecent == [][C14_OpStep]_vars
C14_Witness ==
    /\ WORKLOAD = "D"
    /\ op = "r"
    /\ Len(insertLog) = 11
    /\ query_key = key_buffer[1]
    /\ query_key # key
    /\ query_key # insertLog[1]
    /\ Len(loadFile) = 1
    /\ loadFile[1] \notin Range(insertLog)
    /\ loadFile[1] # key

\* C15: in the thread phase the operations written so far number
\* NUM_THREADS * counter + current_thread, with current_thread within
\* 0..NUM_THREADS.  So an accepted record of the thread phase writes exactly
\* one operation, unless it ends the reading loop (the break of line 88, or
\* generate_op raising), and then it writes none; and the record that
\* switches the phase writes neither a load line nor an operation.
C15_RecordStep ==
    (SameRun /\ nAccepted' = nAccepted + 1) =>
        /\ (current_state = "load" /\ current_state' = "thread") =>
              loadFile' = loadFile /\ workerLen' = workerLen
        /\ current_state = "thread" =>
              IF pc' \in {"files", "crashed"}
              THEN workerLen' = workerLen
              ELSE TotalOps' = TotalOps + 1
C15_OpCount ==
    /\ [](current_state = "thread" =>
            /\ TotalOps = NUM_THREADS * counter + current_thread
            /\ 0 <= current_thread /\ current_thread <= NUM_THREADS)
    /\ [][C15_RecordStep]_vars
C15_Witness ==
    /\ NUM_THREADS = 2
    /\ PER_THREAD_KEYS = 3
    /\ current_state = "thread"
    /\ counter = 1
    /\ current_thread = 1
    /\ TotalOps = 3
    /\ nAccepted = INIT_KEYS + 4

====
